---- MODULE Spec2Model ----
(***************************************************************************)
(* The Zynk dashboard controller (src/dashboard.js, class EmailDashboard)  *)
(* as a state machine.  One action per event the page can receive: the     *)
(* startup (init), a click on Refresh or Process, the arrival of a         *)
(* response, a click on a section tab, a category button, a view button or *)
(* a card, a close of the overlay, and the firing of a toast timer.        *)
(*                                                                         *)
(* A handler is a sequence of statements that may throw; it is modelled as *)
(* a chain of operators over a record m holding the controller's fields    *)
(* and the part of the document it touches.  m.thrown says that a         *)
(* statement has thrown: every later statement is skipped until a catch.   *)
(*                                                                         *)
(* The controller dereferences document.getElementById('emailsGrid')       *)
(* without a null guard.  The id the listing container carries is part of  *)
(* the document the controller runs in (gridId): the repository's markup   *)
(* names it articlesGrid, a document that matches the controller names it  *)
(* emailsGrid.                                                             *)
(***************************************************************************)
EXTENDS Integers, Sequences, FiniteSets, Bags, TLC

VARIABLES
    pc,               \* "new" before init(), "running" after
    gridId,           \* id of the listing container in the document
    currentSection, currentCategory, currentView, emailsData,
    loadingDisplay, emptyDisplay, gridDisplay, sidebarDisplay,
    activeTab, tabCount, totalCount,
    allCount, catButtons, activeCats,
    header, listing, activeViews, gridClass,
    toast, timers,
    modal, bodyOverflow,
    inflight, issued,
    clicks, last, emitted, uncaught,
    rec,              \* the record handed to a rendering function
    out               \* what that function wrote into the document

vars == <<pc, gridId, currentSection, currentCategory, currentView, emailsData,
          loadingDisplay, emptyDisplay, gridDisplay, sidebarDisplay,
          activeTab, tabCount, totalCount, allCount, catButtons, activeCats,
          header, listing, activeViews, gridClass, toast, timers,
          modal, bodyOverflow, inflight, issued, clicks, last, emitted, uncaught,
          rec, out>>

(***************************************************************************)
(* Bounds                                                                  *)
(***************************************************************************)
MaxClicks == 2        \* Refresh / Process clicks in a behaviour
MaxRequests == 2      \* requests issued in a behaviour
MaxTimers == 2        \* toast dismissal timers pending at once
MaxText == 2          \* characters in the text fields of a rendered record
MaxSections == 3      \* section tabs the user clicks, in the markup's order

(***************************************************************************)
(* Data                                                                    *)
(***************************************************************************)
Sections == {"articles", "jobs", "promotions", "notifications", "personal"}

\* the section tabs in the order of the markup (lines 56-80)
SectionTabs == <<"articles", "jobs", "promotions", "notifications", "personal">>

\* the tabs clicked in a behaviour: the first MaxSections of them.  The
\* sections no snapshot of Snapshots carries are handled alike.
Tabs == {SectionTabs[i] : i \in {j \in 1..Len(SectionTabs) : j <= MaxSections}}

ViewModes == {"grid", "list"}

\* Snapshots the backend may answer with.  Records are named by numbers;
\* sections maps a section name to its sequence, article_categories is the
\* mapping in its iteration order.  The second snapshot omits the jobs
\* section, has no tech category, and has a category with no entries.
\* emailsData holds an index into Snapshots, 0 for null.
Snapshots ==
    << [sections |-> ("articles" :> <<1, 2>>) @@ ("jobs" :> <<3>>),
        article_categories |-> << [key |-> "tech", emails |-> <<1>>],
                                  [key |-> "fin",  emails |-> <<2>>] >>,
        total_emails |-> 3],
       [sections |-> ("articles" :> <<2>>),
        article_categories |-> << [key |-> "fin", emails |-> <<2>>],
                                  [key |-> "ai",  emails |-> <<>>] >>,
        total_emails |-> 1] >>

NumSnapshots == Len(Snapshots)

Data(i) == Snapshots[i]

CategoryKeys(d) == {d.article_categories[i].key : i \in 1..Len(d.article_categories)}

CategoryEmails(d, c) ==
    LET i == CHOOSE j \in 1..Len(d.article_categories) : d.article_categories[j].key = c
    IN  d.article_categories[i].emails

sectionNames ==
    ("articles" :> "Articles & Blogs") @@ ("jobs" :> "Job Alerts")
    @@ ("promotions" :> "Promotions") @@ ("notifications" :> "Notifications")
    @@ ("personal" :> "Personal")

\* name.charAt(0).toUpperCase() + name.slice(1), tabulated: TLC cannot take
\* a string apart, so the function is defined on the names listed here
\* (the category keys of Snapshots and of the specification's examples)
\* and on no other
upperFirst ==
    ("tech" :> "Tech") @@ ("fin" :> "Fin") @@ ("ai" :> "Ai") @@ ("all" :> "All")
    @@ ("technology" :> "Technology") @@ ("finance" :> "Finance")
    @@ ("work" :> "Work") @@ ("news" :> "News") @@ ("a" :> "A")
    @@ ("social" :> "Social") @@ ("updates" :> "Updates") @@ ("" :> "")

\* sectionNames[section] || section.charAt(0).toUpperCase() + section.slice(1)
formatSectionName(section) ==
    IF section \in DOMAIN sectionNames THEN sectionNames[section]
    ELSE upperFirst[section]

formatCategoryName(category) == upperFirst[category]

(***************************************************************************)
(* The record a handler works on                                           *)
(***************************************************************************)
Cur ==
    [gridId |-> gridId,
     currentSection |-> currentSection, currentCategory |-> currentCategory,
     currentView |-> currentView, emailsData |-> emailsData,
     loadingDisplay |-> loadingDisplay, emptyDisplay |-> emptyDisplay,
     gridDisplay |-> gridDisplay, sidebarDisplay |-> sidebarDisplay,
     activeTab |-> activeTab, tabCount |-> tabCount, totalCount |-> totalCount,
     allCount |-> allCount, catButtons |-> catButtons, activeCats |-> activeCats,
     header |-> header, listing |-> listing, activeViews |-> activeViews,
     gridClass |-> gridClass, toast |-> toast, timers |-> timers,
     modal |-> modal, bodyOverflow |-> bodyOverflow,
     inflight |-> inflight, issued |-> issued,
     emitted |-> <<>>, thrown |-> FALSE]

Commit(m) ==
    /\ gridId' = m.gridId
    /\ currentSection' = m.currentSection
    /\ currentCategory' = m.currentCategory
    /\ currentView' = m.currentView
    /\ emailsData' = m.emailsData
    /\ loadingDisplay' = m.loadingDisplay
    /\ emptyDisplay' = m.emptyDisplay
    /\ gridDisplay' = m.gridDisplay
    /\ sidebarDisplay' = m.sidebarDisplay
    /\ activeTab' = m.activeTab
    /\ tabCount' = m.tabCount
    /\ totalCount' = m.totalCount
    /\ allCount' = m.allCount
    /\ catButtons' = m.catButtons
    /\ activeCats' = m.activeCats
    /\ header' = m.header
    /\ listing' = m.listing
    /\ activeViews' = m.activeViews
    /\ gridClass' = m.gridClass
    /\ toast' = m.toast
    /\ timers' = m.timers
    /\ modal' = m.modal
    /\ bodyOverflow' = m.bodyOverflow
    /\ inflight' = m.inflight
    /\ issued' = m.issued
    /\ emitted' = m.emitted
    /\ uncaught' = m.thrown

\* the state a catch block starts from
Caught(m) == [m EXCEPT !.thrown = FALSE]

\* document.getElementById('emailsGrid') is an element
HasEmailsGrid(m) == m.gridId = "emailsGrid"

(***************************************************************************)
(* showToast, and the three content views                                  *)
(***************************************************************************)
\* mutant of showToast: the timers pending are cancelled and one is set anew
showToast_Reschedules(m, message, type) ==
    IF m.thrown THEN m
    ELSE [m EXCEPT !.toast = [show |-> TRUE, type |-> type],
                   !.timers = 1,
                   !.emitted = Append(@, type)]

showToast(m, message, type) ==
    IF m.thrown THEN m
    ELSE [m EXCEPT !.toast = [show |-> TRUE, type |-> type],
                   !.timers = @ + 1,
                   !.emitted = Append(@, type)]

showLoading(m) ==
    IF m.thrown THEN m
    ELSE LET a == [m EXCEPT !.loadingDisplay = "flex", !.emptyDisplay = "none"]
         IN  IF HasEmailsGrid(a) THEN [a EXCEPT !.gridDisplay = "none"]
             ELSE [a EXCEPT !.thrown = TRUE]

\* mutant of showEmpty: the empty state also drops the snapshot
showEmpty_Clears(m) ==
    IF m.thrown THEN m
    ELSE LET a == [m EXCEPT !.loadingDisplay = "none", !.emptyDisplay = "flex",
                            !.emailsData = 0]
         IN  IF HasEmailsGrid(a) THEN [a EXCEPT !.gridDisplay = "none"]
             ELSE [a EXCEPT !.thrown = TRUE]

showEmpty(m) ==
    IF m.thrown THEN m
    ELSE LET a == [m EXCEPT !.loadingDisplay = "none", !.emptyDisplay = "flex"]
         IN  IF HasEmailsGrid(a) THEN [a EXCEPT !.gridDisplay = "none"]
             ELSE [a EXCEPT !.thrown = TRUE]

(***************************************************************************)
(* Rendering of the listing                                                *)
(***************************************************************************)
displaySectionEmails(m) ==
    IF m.thrown \/ m.emailsData = 0 THEN m
    ELSE LET sections == Data(m.emailsData).sections
             emails == IF m.currentSection \in DOMAIN sections
                       THEN sections[m.currentSection] ELSE <<>>
             a == [m EXCEPT !.header = formatSectionName(m.currentSection)]
         IN  IF Len(emails) = 0
             THEN [a EXCEPT !.listing = [cards |-> <<>>, placeholder |-> "section", kind |-> "section"]]
             ELSE [a EXCEPT !.listing = [cards |-> emails, placeholder |-> "", kind |-> "section"]]

\* mutant of displayArticles: an empty selection throws instead of rendering
\* the placeholder
displayArticles_NoPlaceholder(m) ==
    IF m.thrown \/ m.emailsData = 0 THEN m
    ELSE LET d == Data(m.emailsData)
             articles ==
                 IF m.currentCategory = "all"
                 THEN IF "articles" \in DOMAIN d.sections
                      THEN d.sections["articles"] ELSE <<>>
                 ELSE IF m.currentCategory \in CategoryKeys(d)
                      THEN CategoryEmails(d, m.currentCategory) ELSE <<>>
         IN  IF Len(articles) = 0
             THEN [m EXCEPT !.listing = [cards |-> <<>>, placeholder |-> "", kind |-> "article"],
                            !.thrown = TRUE]
             ELSE [m EXCEPT !.listing = [cards |-> articles, placeholder |-> "", kind |-> "article"]]

displayArticles(m) ==
    IF m.thrown \/ m.emailsData = 0 THEN m
    ELSE LET d == Data(m.emailsData)
             articles ==
                 IF m.currentCategory = "all"
                 THEN IF "articles" \in DOMAIN d.sections
                      THEN d.sections["articles"] ELSE <<>>
                 ELSE IF m.currentCategory \in CategoryKeys(d)
                      THEN CategoryEmails(d, m.currentCategory) ELSE <<>>
         IN  IF Len(articles) = 0
             THEN [m EXCEPT !.listing = [cards |-> <<>>, placeholder |-> "articles", kind |-> "article"]]
             ELSE [m EXCEPT !.listing = [cards |-> articles, placeholder |-> "", kind |-> "article"]]

displayCurrentSection(m) ==
    IF m.thrown \/ m.emailsData = 0 THEN m
    ELSE IF m.currentSection = "articles" THEN displayArticles(m)
         ELSE displaySectionEmails(m)

displayEmails(m) == displayCurrentSection(m)

showEmails(m) ==
    IF m.thrown THEN m
    ELSE LET a == [m EXCEPT !.loadingDisplay = "none", !.emptyDisplay = "none"]
         IN  IF HasEmailsGrid(a)
             THEN displayEmails([a EXCEPT !.gridDisplay = "block"])
             ELSE [a EXCEPT !.thrown = TRUE]

(***************************************************************************)
(* Counts and category buttons                                             *)
(***************************************************************************)
\* mutant of updateSectionCounts: only the tab of the current section is updated
updateSectionCounts_CurrentOnly(m) ==
    IF m.thrown \/ m.emailsData = 0 THEN m
    ELSE LET sections == Data(m.emailsData).sections
         IN  [m EXCEPT !.tabCount =
                 [s \in Sections |->
                     IF s \in DOMAIN sections /\ s = m.currentSection
                     THEN Len(sections[s]) ELSE @[s]]]

updateSectionCounts(m) ==
    IF m.thrown \/ m.emailsData = 0 THEN m
    ELSE LET sections == Data(m.emailsData).sections
         IN  [m EXCEPT !.tabCount =
                 [s \in Sections |->
                     IF s \in DOMAIN sections THEN Len(sections[s]) ELSE @[s]]]

updateCategoryFilters(m) ==
    IF m.thrown THEN m
    ELSE IF m.emailsData = 0 THEN [m EXCEPT !.thrown = TRUE]
    ELSE LET d == Data(m.emailsData)
             categories == d.article_categories
         IN  [m EXCEPT
                !.allCount = IF "articles" \in DOMAIN d.sections
                             THEN Len(d.sections["articles"]) ELSE 0,
                !.catButtons = [i \in 1..Len(categories) |->
                                   [category |-> categories[i].key,
                                    count |-> Len(categories[i].emails)]],
                !.activeCats = @ \cap {"all"}]

\* mutant of updateUI: a new snapshot resets the category filter
updateUI_ResetsCategory(m) ==
    IF m.thrown \/ m.emailsData = 0 THEN m
    ELSE LET a == updateSectionCounts([m EXCEPT !.currentCategory = "all"])
             b == IF a.currentSection = "articles" THEN updateCategoryFilters(a) ELSE a
         IN  IF b.thrown THEN b
             ELSE [b EXCEPT !.totalCount = Data(b.emailsData).total_emails]

updateUI(m) ==
    IF m.thrown \/ m.emailsData = 0 THEN m
    ELSE LET a == updateSectionCounts(m)
             b == IF a.currentSection = "articles" THEN updateCategoryFilters(a) ELSE a
         IN  IF b.thrown THEN b
             ELSE [b EXCEPT !.totalCount = Data(b.emailsData).total_emails]

(***************************************************************************)
(* User interaction handlers                                               *)
(***************************************************************************)
\* mutant of switchSection: the category is reset for every section
switchSection_AlwaysResets(m, section) ==
    LET a == [m EXCEPT !.currentSection = section, !.activeTab = section,
                       !.currentCategory = "all"]
        b == IF section = "articles"
             THEN updateCategoryFilters([a EXCEPT !.sidebarDisplay = "block"])
             ELSE [a EXCEPT !.sidebarDisplay = "none"]
    IN  displayCurrentSection(b)

\* mutant of switchSection: the sidebar is left as it is
switchSection_KeepsSidebar(m, section) ==
    LET a == [m EXCEPT !.currentSection = section, !.activeTab = section]
        b == IF section = "articles"
             THEN updateCategoryFilters([a EXCEPT !.currentCategory = "all"])
             ELSE a
    IN  displayCurrentSection(b)

\* mutant of switchSection: entering articles keeps the selected category
switchSection_KeepsCategory(m, section) ==
    LET a == [m EXCEPT !.currentSection = section, !.activeTab = section]
        b == IF section = "articles"
             THEN updateCategoryFilters([a EXCEPT !.sidebarDisplay = "block"])
             ELSE [a EXCEPT !.sidebarDisplay = "none"]
    IN  displayCurrentSection(b)

\* mutant of switchSection: entering articles does not rebuild the category
\* buttons
switchSection_NoRebuild(m, section) ==
    LET a == [m EXCEPT !.currentSection = section, !.activeTab = section]
        b == IF section = "articles"
             THEN IF a.emailsData = 0 THEN [a EXCEPT !.sidebarDisplay = "block",
                                                     !.currentCategory = "all",
                                                     !.thrown = TRUE]
                  ELSE [a EXCEPT !.sidebarDisplay = "block", !.currentCategory = "all"]
             ELSE [a EXCEPT !.sidebarDisplay = "none"]
    IN  displayCurrentSection(b)

switchSection(m, section) ==
    LET a == [m EXCEPT !.currentSection = section, !.activeTab = section]
        b == IF section = "articles"
             THEN updateCategoryFilters(
                      [a EXCEPT !.sidebarDisplay = "block", !.currentCategory = "all"])
             ELSE [a EXCEPT !.sidebarDisplay = "none"]
    IN  displayCurrentSection(b)

\* the categories that have a button in the sidebar
ButtonCategories(m) ==
    {"all"} \cup {m.catButtons[i].category : i \in 1..Len(m.catButtons)}

\* mutant of filterByCategory: the first definition of the class body (lines
\* 367-382), which sets the header and shows no toast
filterByCategory_First(m, category) ==
    IF m.thrown THEN m
    ELSE LET a == [m EXCEPT !.currentCategory = category,
                            !.activeCats = {category} \cap ButtonCategories(m)]
         IN  IF category \notin ButtonCategories(m) THEN [a EXCEPT !.thrown = TRUE]
             ELSE displayArticles(
                      [a EXCEPT !.header = IF category = "all" THEN "All Articles"
                                           ELSE formatCategoryName(category)])

\* the second definition of the class body (lines 514-532) is the one in effect
filterByCategory(m, category) ==
    IF m.thrown THEN m
    ELSE LET a == [m EXCEPT !.currentCategory = category,
                            !.activeCats = {category} \cap ButtonCategories(m)]
             categoryName == IF category = "all" THEN "All Articles"
                             ELSE formatCategoryName(category)
         IN  showToast(displayEmails(a), categoryName, "success")

\* mutant of toggleView: the view buttons keep their state
toggleView_KeepsButtons(m, view) ==
    LET a == [m EXCEPT !.currentView = view]
        b == IF HasEmailsGrid(a)
             THEN [a EXCEPT !.gridClass = IF view = "grid" THEN "emails-grid"
                                          ELSE "emails-list"]
             ELSE a
    IN  showToast(displayEmails(b), view, "success")

toggleView(m, view) ==
    LET a == [m EXCEPT !.currentView = view,
                       !.activeViews = {view} \cap ViewModes]
        b == IF HasEmailsGrid(a)
             THEN [a EXCEPT !.gridClass = IF view = "grid" THEN "emails-grid"
                                          ELSE "emails-list"]
             ELSE a
    IN  showToast(displayEmails(b), view, "success")

\* Fields of the records: which of summary / full_content a record carries
\* (every record carries title, sender, date and snippet).
HasSummary(r) == r \in {1}
HasFullContent(r) == r \in {1}

openArticle(m, article) ==
    LET a == [m EXCEPT !.modal = [@ EXCEPT !.record = article]]
    IN  IF HasFullContent(article) \/ HasSummary(article)
        THEN [a EXCEPT !.modal = [@ EXCEPT !.active = TRUE], !.bodyOverflow = "hidden"]
        ELSE [a EXCEPT !.thrown = TRUE]

openSectionEmail(m, email) ==
    [m EXCEPT !.modal = [active |-> TRUE, record |-> email],
              !.bodyOverflow = "hidden"]

\* mutant of closeModal: the overlay is hidden but the scroll lock is kept
closeModal_KeepsLock(m) == [m EXCEPT !.modal = [@ EXCEPT !.active = FALSE]]

closeModal(m) ==
    [m EXCEPT !.modal = [@ EXCEPT !.active = FALSE], !.bodyOverflow = ""]

(***************************************************************************)
(* Rendering of a record's text into markup                                *)
(***************************************************************************)
\* A text is a sequence of characters.  Markup is a sequence of units: a
\* character, a character reference such as "&lt;", or a piece of a template
\* (its tags with the line breaks and indentation between them; {date} and
\* {n} stand for the formatted date and the count, which are not texts of
\* the record).  Concatenating the units gives the string the code builds.
Chars == {"a", "<", ">", "&", "\"", " ", "\n"}

Whitespace == {" ", "\n"}

Texts(n) == UNION {[1..k -> Chars] : k \in 0..n}

\* div.textContent = text; return div.innerHTML: the serialisation of a text
\* node replaces &, < and > by character references
escapeHtml_Identity(text) == text

escapeHtml(text) ==
    [i \in 1..Len(text) |->
        CASE text[i] = "&" -> "&amp;"
          [] text[i] = "<" -> "&lt;"
          [] text[i] = ">" -> "&gt;"
          [] OTHER -> text[i]]

\* String.prototype.trim
trim(text) ==
    LET keep == {i \in 1..Len(text) : text[i] \notin Whitespace}
    IN  IF keep = {} THEN <<>>
        ELSE SubSeq(text, CHOOSE i \in keep : \A j \in keep : i <= j,
                          CHOOSE i \in keep : \A j \in keep : i >= j)

\* content.split('\n')
RECURSIVE split(_)
split(text) ==
    LET breaks == {i \in 1..Len(text) : text[i] = "\n"}
    IN  IF breaks = {} THEN <<text>>
        ELSE LET i == CHOOSE b \in breaks : \A c \in breaks : b <= c
             IN  <<SubSeq(text, 1, i - 1)>> \o split(SubSeq(text, i + 1, Len(text)))

\* .map(paragraph => paragraph.trim() ? `<p>${escapeHtml(paragraph.trim())}</p>` : '').join('')
RECURSIVE formatParagraphs(_)
formatParagraphs(paragraphs) ==
    IF paragraphs = <<>> THEN <<>>
    ELSE (IF trim(Head(paragraphs)) # <<>>
          THEN <<"<p>">> \o escapeHtml(trim(Head(paragraphs))) \o <<"</p>">>
          ELSE <<>>)
         \o formatParagraphs(Tail(paragraphs))

\* category.charAt(0).toUpperCase() + category.slice(1), on a text
capitalize(text) ==
    [i \in 1..Len(text) |-> IF i = 1 /\ text[i] = "a" THEN "A" ELSE text[i]]

\* label is the category of an article, the type of a section email, or a
\* key of article_categories
NoRecord == [title |-> <<>>, sender |-> <<>>, snippet |-> <<>>,
             summary |-> <<>>, full_content |-> <<>>, label |-> <<>>]

\* the overlay as the markup gives it (lines 152-170): the text of
\* modalTitle, the text of modalSender and the content of modalContent, a
\* comment between the line breaks and indentation of the markup
NoOutput ==
    [site |-> "",
     html |-> <<"\n                    ",
                "<!-- Full article content will be loaded here -->",
                "\n                ">>,
     title |-> <<"Article Title">>,
     sender |-> <<>>]

\* formatSectionName on a text: no text over Chars is a key of sectionNames
formatSectionNameText(text) == capitalize(text)

\* formatCategoryName on a text
formatCategoryNameText(text) == capitalize(text)

\* card.innerHTML of createSectionEmailCard.  A piece of the template holds
\* its tags with the line breaks and indentation of the template literal.
createSectionEmailCard(email) ==
    [site |-> "createSectionEmailCard",
     html |-> <<"\n            <div class=\"article-header\">\n                <h3 class=\"article-title\">">>
              \o escapeHtml(email.title)
              \o <<"</h3>\n                <div class=\"article-meta\">\n                    <span class=\"article-sender\">">>
              \o escapeHtml(email.sender)
              \o <<"</span>\n                    <span class=\"article-date\">{date}</span>\n                </div>\n                <span class=\"article-category ">>
              \o email.label
              \o <<"\">">>
              \o formatSectionNameText(email.label)
              \o <<"</span>\n            </div>\n            <div class=\"article-summary\">\n                ">>
              \o escapeHtml(email.snippet)
              \o <<"\n            </div>\n        ">>,
     title |-> <<>>, sender |-> <<>>]

\* card.innerHTML of createArticleCard
createArticleCard(article) ==
    [site |-> "createArticleCard",
     html |-> <<"\n            <div class=\"article-header\">\n                <h3 class=\"article-title\">">>
              \o escapeHtml(article.title)
              \o <<"</h3>\n                <div class=\"article-meta\">\n                    <span class=\"article-sender\">">>
              \o escapeHtml(article.sender)
              \o <<"</span>\n                    <span class=\"article-date\">{date}</span>\n                </div>\n                <span class=\"article-category ">>
              \o article.label
              \o <<"\">">>
              \o formatCategoryNameText(article.label)
              \o <<"</span>\n            </div>\n            <div class=\"article-summary\">\n                ">>
              \o escapeHtml(article.summary)
              \o <<"\n            </div>\n        ">>,
     title |-> <<>>, sender |-> <<>>]

\* button.innerHTML of a category button built by updateCategoryFilters for
\* the key category.label, with {n} the number of its entries
categoryButton(category) ==
    [site |-> "updateCategoryFilters",
     html |-> <<"\n                <span>\n                    <i class=\"fas fa-tag\"></i>\n                    ">>
              \o formatCategoryNameText(category.label)
              \o <<"\n                </span>\n                <span class=\"count\">{n}</span>\n            ">>,
     title |-> <<>>, sender |-> <<>>]

\* what openSectionEmail writes: the textContent of modalTitle and
\* modalSender, and the innerHTML of modalContent
renderSectionEmail(email) ==
    [site |-> "openSectionEmail",
     html |-> <<"<p>">> \o escapeHtml(email.snippet) \o <<"</p>">>,
     title |-> email.title,
     sender |-> <<"From: ">> \o email.sender]

\* what openArticle writes, for an article that carries full_content or
\* summary (an empty string is falsy)
renderArticle(article) ==
    LET content == IF article.full_content # <<>> THEN article.full_content
                   ELSE article.summary
        formattedContent == formatParagraphs(split(content))
    IN  [site |-> "openArticle",
         html |-> IF formattedContent # <<>> THEN formattedContent
                  ELSE <<"<p>No content available.</p>">>,
         title |-> article.title,
         sender |-> <<"From: ">> \o article.sender]

(***************************************************************************)
(* load / refresh / process: the part up to the fetch, and the part that   *)
(* runs when the response arrives                                          *)
(***************************************************************************)
\* fetch(): the request is in flight.  inflight is the bag of the requests
\* whose handler is suspended at an await: at stage "fetch" until the
\* response arrives, then at stage "json" until its body has been read.
\* The other fields are history: held is the snapshot held when the request
\* was issued, latest says that no response has arrived after this one, and
\* newer is the snapshot brought by the response that arrived last, when
\* that is not this one and has brought one (0 otherwise).
Fetch(m, kind) ==
    IF m.thrown THEN m
    ELSE [m EXCEPT !.issued = @ + 1,
                   !.inflight = @ (+) SetToBag({[kind |-> kind, held |-> m.emailsData,
                                                 stage |-> "fetch", latest |-> FALSE,
                                                 newer |-> 0]})]

\* How a request ends: "ok" is a body with success true and a snapshot in
\* data, "nodata" a body with success true and no data, "unsuccessful" a
\* body with success false, "rejected" a fetch or a response.json() that
\* rejects.
Outcomes == {"ok", "nodata", "unsuccessful", "rejected"}

\* result.success is true
Success == {"ok", "nodata"}

loadEmailsCatch(m) == showEmpty(showToast(m, "Failed to load emails", "error"))

loadEmails(m) ==
    LET a == Fetch(showLoading(m), "load")
    IN  IF a.thrown THEN loadEmailsCatch(Caught(a)) ELSE a

loadEmailsResume(m, outcome, d) ==
    LET a == CASE outcome = "rejected" -> [m EXCEPT !.thrown = TRUE]
               [] outcome \in Success -> showEmails(updateUI([m EXCEPT !.emailsData = d]))
               [] OTHER -> showEmpty(m)
    IN  IF a.thrown THEN loadEmailsCatch(Caught(a)) ELSE a

refreshEmailsCatch(m) == showToast(m, "Failed to refresh emails", "error")

refreshEmails(m) ==
    LET a == Fetch(showToast(m, "Refreshing emails...", "info"), "refresh")
    IN  IF a.thrown THEN refreshEmailsCatch(Caught(a)) ELSE a

\* mutant of refreshEmailsResume: a failed refresh falls back to the empty
\* state, as a failed process does
refreshEmailsResume_Empties(m, outcome, d) ==
    LET a == CASE outcome = "rejected" -> [m EXCEPT !.thrown = TRUE]
               [] outcome \in Success ->
                    showToast(showEmails(updateUI([m EXCEPT !.emailsData = d])),
                              "Emails refreshed successfully!", "success")
               [] OTHER -> showEmpty(showToast(m, "Failed to refresh emails", "error"))
    IN  IF a.thrown THEN showEmpty(refreshEmailsCatch(Caught(a))) ELSE a

refreshEmailsResume(m, outcome, d) ==
    LET a == CASE outcome = "rejected" -> [m EXCEPT !.thrown = TRUE]
               [] outcome \in Success ->
                    showToast(showEmails(updateUI([m EXCEPT !.emailsData = d])),
                              "Emails refreshed successfully!", "success")
               [] OTHER -> showToast(m, "Failed to refresh emails", "error")
    IN  IF a.thrown THEN refreshEmailsCatch(Caught(a)) ELSE a

\* mutant of processEmailsCatch: a failed process only shows the toast, as a
\* failed refresh does
processEmailsCatch_ToastOnly(m) == showToast(m, "Failed to process emails", "error")

processEmailsCatch(m) == showEmpty(showToast(m, "Failed to process emails", "error"))

processEmails(m) ==
    LET a == Fetch(showToast(showLoading(m),
                             "Processing emails... This may take a few minutes", "info"),
                   "process")
    IN  IF a.thrown THEN processEmailsCatch(Caught(a)) ELSE a

processEmailsResume(m, outcome, d) ==
    LET a == CASE outcome = "rejected" -> [m EXCEPT !.thrown = TRUE]
               [] outcome \in Success ->
                    showToast(showEmails(updateUI([m EXCEPT !.emailsData = d])),
                              "Emails processed successfully!", "success")
               [] OTHER -> showEmpty(showToast(m, "Failed to process emails", "error"))
    IN  IF a.thrown THEN processEmailsCatch(Caught(a)) ELSE a

\* mutant of Resume: a response that arrives when a snapshot is already held
\* is taken to be stale and its data dropped (the first response wins)
Resume_FirstWins(m, kind, outcome, d) ==
    LET dd == IF m.emailsData = 0 THEN d ELSE m.emailsData
    IN  CASE kind = "load" -> loadEmailsResume(m, outcome, dd)
          [] kind = "refresh" -> refreshEmailsResume(m, outcome, dd)
          [] OTHER -> processEmailsResume(m, outcome, dd)

Resume(m, kind, outcome, d) ==
    CASE kind = "load" -> loadEmailsResume(m, outcome, d)
      [] kind = "refresh" -> refreshEmailsResume(m, outcome, d)
      [] OTHER -> processEmailsResume(m, outcome, d)

(***************************************************************************)
(* The state machine                                                       *)
(***************************************************************************)
\* what the last step was: the handler, the snapshot held before it, and
\* for a response the request's kind, its outcome, the data it carried and
\* the snapshot held when the request was issued; for a filterByCategory
\* the category clicked; for a switchSection that returns to articles from
\* another section, whether a category other than "all" was selected before
\* it ("filtered") and whether the category buttons were then those of the
\* held snapshot (0) or not (1); for a toggleView the view clicked
Event(op, kind, outcome, data, held) ==
    [op |-> op, kind |-> kind, outcome |-> outcome, data |-> data, held |-> held,
     prev |-> emailsData, newer |-> 0]

\* constructor, lines 4-9, with the document as the markup gives it
Init ==
    /\ pc = "new"
    /\ gridId \in {"articlesGrid", "emailsGrid"}
    /\ currentSection = "articles"
    /\ currentCategory = "all"
    /\ currentView = "grid"
    /\ emailsData = 0
    /\ loadingDisplay = ""
    /\ emptyDisplay = "none"
    /\ gridDisplay = "none"
    /\ sidebarDisplay = ""
    /\ activeTab = "articles"
    /\ tabCount = [s \in Sections |-> 0]
    /\ totalCount = 0
    /\ allCount = 0
    /\ catButtons = <<>>
    /\ activeCats = {"all"}
    /\ header = "All Articles"
    /\ listing = [cards |-> <<>>, placeholder |-> "", kind |-> "article"]
    /\ activeViews = {"grid"}
    /\ gridClass = "articles-grid"
    /\ toast = [show |-> FALSE, type |-> ""]
    /\ timers = 0
    /\ modal = [active |-> FALSE, record |-> 0]
    /\ bodyOverflow = ""
    /\ inflight = EmptyBag
    /\ issued = 0
    /\ clicks = 0
    /\ last = Event("new", "", "", 0, 0)
    /\ emitted = <<>>
    /\ uncaught = FALSE
    /\ rec = NoRecord
    /\ out = NoOutput

\* the outcome of the synchronous part of load / refresh / process:
\* "threw" when its try block threw before the request was issued
Issued(m) == IF m.issued = issued THEN "threw" ELSE ""

\* a handler ran to its end (or to an uncaught throw) and left m
Step(m, ev) ==
    /\ m.timers <= MaxTimers
    /\ Commit(m)
    /\ last' = ev
    /\ UNCHANGED <<rec, out>>

\* init(): bindEvents, then loadEmails up to its fetch
Startup ==
    /\ pc = "new"
    /\ pc' = "running"
    /\ Step(loadEmails(Cur), Event("load", "", Issued(loadEmails(Cur)), 0, 0))
    /\ UNCHANGED clicks

RefreshClick ==
    /\ pc = "running"
    /\ clicks < MaxClicks
    /\ issued < MaxRequests
    /\ clicks' = clicks + 1
    /\ Step(refreshEmails(Cur), Event("refresh", "", Issued(refreshEmails(Cur)), 0, 0))
    /\ UNCHANGED pc

\* processEmailsBtn and processFirstTime both call processEmails
ProcessClick ==
    /\ pc = "running"
    /\ clicks < MaxClicks
    /\ issued < MaxRequests
    /\ clicks' = clicks + 1
    /\ Step(processEmails(Cur), Event("process", "", Issued(processEmails(Cur)), 0, 0))
    /\ UNCHANGED pc

\* the copies in bag b of the requests that the rewriting f of their history
\* turns into q
Copies(b, f, q) ==
    BagCardinality([r \in {x \in BagToSet(b) : f[x] = q} |-> b[r]])

\* another response arrives: none of the requests of b has the latest one
Overtaken(b) ==
    LET f == [r \in BagToSet(b) |-> [r EXCEPT !.latest = FALSE, !.newer = 0]]
    IN  [q \in {f[r] : r \in BagToSet(b)} |-> Copies(b, f, q)]

\* the response that arrived last has brought snapshot d (0: none): the
\* requests of b whose response had arrived before it record that
Outdated(b, d) ==
    LET f == [r \in BagToSet(b) |->
                 IF r.stage = "json" THEN [r EXCEPT !.newer = d] ELSE r]
    IN  [q \in {f[r] : r \in BagToSet(b)} |-> Copies(b, f, q)]

\* The fetch of request r resolves: the handler resumes, calls
\* response.json() and is suspended again at that await.  Nothing the
\* controller holds changes in this turn.
ArrivalOf(r) ==
    /\ pc = "running"
    /\ r \in BagToSet(inflight)
    /\ r.stage = "fetch"
    /\ Step([Cur EXCEPT !.inflight = Overtaken(@ (-) SetToBag({r}))
                                     (+) SetToBag({[r EXCEPT !.stage = "json",
                                                             !.latest = TRUE]})],
            Event("arrival", "", "", 0, 0))
    /\ UNCHANGED <<pc, clicks>>

Arrival == \E r \in BagToSet(inflight) : ArrivalOf(r)

\* what is left in flight when the handler of request r has run, with the
\* body bringing snapshot d (0: none)
Remaining(r, d) ==
    IF r.latest THEN Outdated(inflight (-) SetToBag({r}), d)
    ELSE inflight (-) SetToBag({r})

\* The handler of request r runs to its end: with the body that
\* response.json() resolved to, or in its catch block when the fetch or
\* response.json() rejected.  d is result.data, 0 when the body has none.
ResponseOf(r, outcome, d) ==
    /\ pc = "running"
    /\ r \in BagToSet(inflight)
    /\ r.stage = "fetch" => outcome = "rejected"
    /\ Step(Resume([Cur EXCEPT !.inflight = Remaining(r, d)], r.kind, outcome, d),
            [Event("response", r.kind, outcome, d, r.held) EXCEPT !.newer = r.newer])
    /\ UNCHANGED <<pc, clicks>>

Response ==
    \E r \in BagToSet(inflight), outcome \in Outcomes, d \in 0..NumSnapshots :
        /\ (outcome = "ok") = (d # 0)
        /\ ResponseOf(r, outcome, d)

\* the buttons updateCategoryFilters builds from snapshot d
ButtonsOf(d) ==
    [i \in 1..Len(d.article_categories) |->
        [category |-> d.article_categories[i].key,
         count |-> Len(d.article_categories[i].emails)]]

StaleButtons ==
    IF emailsData # 0 /\ catButtons # ButtonsOf(Data(emailsData)) THEN 1 ELSE 0

Returning(section) == section = "articles" /\ currentSection # "articles"

SwitchTo(section) ==
    /\ pc = "running"
    /\ Step(switchSection(Cur, section),
            Event("switchSection", "",
                  IF Returning(section) /\ currentCategory # "all" THEN "filtered" ELSE "",
                  IF Returning(section) THEN StaleButtons ELSE 0, 0))
    /\ UNCHANGED <<pc, clicks>>

SectionClick == \E section \in Tabs : SwitchTo(section)

\* A click on a category button.  The delegated listener of bindEvents
\* (lines 55-63) runs for every button; a button built by
\* updateCategoryFilters also carries a listener of its own (lines 257-259).
FilterBy(category) ==
    /\ pc = "running"
    /\ category \in ButtonCategories(Cur)
    /\ Step(IF category = "all"
            THEN filterByCategory(Cur, category)
            ELSE filterByCategory(filterByCategory(Cur, category), category),
            Event("filterByCategory", category, "", 0, 0))
    /\ UNCHANGED <<pc, clicks>>

CategoryClick == \E category \in ButtonCategories(Cur) : FilterBy(category)

\* A click event on a view button reaches the delegated listener of
\* bindEvents (lines 44-52), which tests nothing but the target: the handler
\* runs whether or not the button is displayed.
ToggleTo(view) ==
    /\ pc = "running"
    /\ Step(toggleView(Cur, view), Event("toggleView", view, "", 0, 0))
    /\ UNCHANGED <<pc, clicks>>

ViewClick == \E view \in ViewModes : ToggleTo(view)

\* a click on the i-th card of the listing
OpenCard(i) ==
    /\ pc = "running"
    /\ i \in 1..Len(listing.cards)
    /\ Step(IF listing.kind = "article"
            THEN openArticle(Cur, listing.cards[i])
            ELSE openSectionEmail(Cur, listing.cards[i]),
            Event("open", listing.kind, "", listing.cards[i], 0))
    /\ UNCHANGED <<pc, clicks>>

CardClick == \E i \in 1..Len(listing.cards) : OpenCard(i)

\* the close button, a click on the backdrop, or Escape
CloseModal ==
    /\ pc = "running"
    /\ Step(closeModal(Cur), Event("closeModal", "", "", 0, 0))
    /\ UNCHANGED <<pc, clicks>>

\* a dismissal timer set by showToast fires
ToastTimer ==
    /\ timers > 0
    /\ Step([Cur EXCEPT !.toast = [@ EXCEPT !.show = FALSE], !.timers = @ - 1],
            Event("timer", "", "", 0, 0))
    /\ UNCHANGED <<pc, clicks>>

Next ==
    \/ Startup
    \/ RefreshClick
    \/ ProcessClick
    \/ Arrival
    \/ Response
    \/ SectionClick
    \/ CategoryClick
    \/ ViewClick
    \/ CardClick
    \/ CloseModal
    \/ ToastTimer

Spec == Init /\ [][Next]_vars

(***************************************************************************)
(* The rendering functions on their own: a record with arbitrary text in   *)
(* its fields is handed to each of the four places that insert it          *)
(***************************************************************************)
controller == <<pc, gridId, currentSection, currentCategory, currentView, emailsData,
                loadingDisplay, emptyDisplay, gridDisplay, sidebarDisplay,
                activeTab, tabCount, totalCount, allCount, catButtons, activeCats,
                header, listing, activeViews, gridClass, toast, timers,
                modal, bodyOverflow, inflight, issued, clicks, last, emitted, uncaught>>

\* the records whose text fields hold at most MaxText characters in all
RenderInit ==
    /\ pc = "render"
    /\ gridId = "articlesGrid"
    /\ currentSection = "articles"
    /\ currentCategory = "all"
    /\ currentView = "grid"
    /\ emailsData = 0
    /\ loadingDisplay = ""
    /\ emptyDisplay = "none"
    /\ gridDisplay = "none"
    /\ sidebarDisplay = ""
    /\ activeTab = "articles"
    /\ tabCount = [s \in Sections |-> 0]
    /\ totalCount = 0
    /\ allCount = 0
    /\ catButtons = <<>>
    /\ activeCats = {"all"}
    /\ header = "All Articles"
    /\ listing = [cards |-> <<>>, placeholder |-> "", kind |-> "article"]
    /\ activeViews = {"grid"}
    /\ gridClass = "articles-grid"
    /\ toast = [show |-> FALSE, type |-> ""]
    /\ timers = 0
    /\ modal = [active |-> FALSE, record |-> 0]
    /\ bodyOverflow = ""
    /\ inflight = EmptyBag
    /\ issued = 0
    /\ clicks = 0
    /\ last = Event("new", "", "", 0, 0)
    /\ emitted = <<>>
    /\ uncaught = FALSE
    /\ \E title \in Texts(MaxText) :
       \E sender \in Texts(MaxText - Len(title)) :
       \E snippet \in Texts(MaxText - Len(title) - Len(sender)) :
       \E summary \in Texts(MaxText - Len(title) - Len(sender) - Len(snippet)) :
       \E full_content \in Texts(MaxText - Len(title) - Len(sender) - Len(snippet)
                                 - Len(summary)) :
       \E label \in Texts(MaxText - Len(title) - Len(sender) - Len(snippet)
                           - Len(summary) - Len(full_content)) :
           rec = [title |-> title, sender |-> sender, snippet |-> snippet,
                  summary |-> summary, full_content |-> full_content,
                  label |-> label]
    /\ out = NoOutput

RenderSectionEmailCard ==
    /\ out' = createSectionEmailCard(rec)
    /\ UNCHANGED <<controller, rec>>

RenderArticleCard ==
    /\ out' = createArticleCard(rec)
    /\ UNCHANGED <<controller, rec>>

RenderSectionEmail ==
    /\ out' = renderSectionEmail(rec)
    /\ UNCHANGED <<controller, rec>>

RenderArticle ==
    /\ out' = renderArticle(rec)
    /\ UNCHANGED <<controller, rec>>

RenderCategoryButton ==
    /\ out' = categoryButton(rec)
    /\ UNCHANGED <<controller, rec>>

RenderNext ==
    \/ RenderCategoryButton
    \/ RenderSectionEmailCard
    \/ RenderArticleCard
    \/ RenderSectionEmail
    \/ RenderArticle

SpecRender == RenderInit /\ [][RenderNext]_vars

(***************************************************************************)
(* Properties                                                              *)
(***************************************************************************)
LoadingVisible == loadingDisplay # "none"
EmptyVisible == emptyDisplay # "none"
ListingVisible == gridDisplay # "none"

RepositoryMarkup == gridId = "articlesGrid"

ResponseHandled(kind) == last.op = "response" /\ last.kind = kind
Succeeded == last.op = "response" /\ last.outcome = "ok"
Failed(kind) == ResponseHandled(kind) /\ last.outcome \notin Success

\* the sequence UIState selects from the held snapshot
Selected ==
    LET d == Data(emailsData)
    IN  IF currentSection # "articles"
        THEN IF currentSection \in DOMAIN d.sections
             THEN d.sections[currentSection] ELSE <<>>
        ELSE IF currentCategory = "all"
             THEN IF "articles" \in DOMAIN d.sections THEN d.sections["articles"] ELSE <<>>
             ELSE IF currentCategory \in CategoryKeys(d)
                  THEN CategoryEmails(d, currentCategory) ELSE <<>>

ListingIsSelected ==
    /\ listing.cards = Selected
    /\ Selected = <<>> => listing.placeholder # ""

\* C1 (as claimed): once every response has been handled, emailsData is the
\* data of the response that arrived last.  last.newer is the snapshot
\* brought by the response that arrived last, when the response handled in
\* the last step is not that one.
C1_Original ==
    (Succeeded /\ inflight = EmptyBag /\ last.newer # 0) => emailsData = last.newer

\* C1 (amended): the last body to be read wins. Whenever a successful
\* response has just been handled, emailsData is that response's data,
\* whatever was held before, whenever its request was issued and whenever
\* its response arrived; in particular this is so once the last of several
\* concurrent requests has been handled.
C1_LastResolvedWins == Succeeded => emailsData = last.data

\* two requests were in flight together (both issued before any snapshot was
\* held); the response handled last had arrived first, and the two brought
\* different snapshots
C1_Witness ==
    /\ RepositoryMarkup
    /\ Succeeded
    /\ inflight = EmptyBag
    /\ last.held = 0
    /\ last.newer # 0
    /\ last.newer # last.data
    /\ last.prev = last.newer
    /\ emailsData = last.data

\* C2 (as claimed): from the moment load or processEmails is called, and as
\* long as its request is in flight, the loading indicator is visible.
C2_LoadingWhilePending ==
    (\/ last.op \in {"load", "process"}
     \/ \E r \in BagToSet(inflight) : r.kind \in {"load", "process"})
    => LoadingVisible

\* C3 (as claimed): after a failed refresh emailsData is the snapshot that
\* was held when the refresh was issued (stated for the repository's markup).
C3_Original == (RepositoryMarkup /\ Failed("refresh")) => emailsData = last.held

\* C3 (amended): handling a failed refresh leaves emailsData as it was just
\* before the failure was handled, shows an error notification, and changes
\* none of the three content views.
C3_FailedRefreshKeepsState ==
    [][ (last'.op = "response" /\ last'.kind = "refresh" /\ last'.outcome \notin Success)
        => /\ emailsData' = emailsData
           /\ emitted' = <<"error">>
           /\ toast'.show /\ toast'.type = "error"
           /\ loadingDisplay' = loadingDisplay
           /\ emptyDisplay' = emptyDisplay
           /\ gridDisplay' = gridDisplay ]_vars

\* a refresh has failed while a snapshot was held that a concurrent request
\* had brought in after the refresh was issued
C3_Witness ==
    /\ RepositoryMarkup
    /\ Failed("refresh")
    /\ emailsData # 0
    /\ emailsData # last.held
    /\ toast.type = "error"

\* C4 (as claimed): when load fails, for a rejected fetch as for a
\* success:false body, the empty state is shown and an error notification
\* is surfaced.
C4_LoadFailure ==
    (Failed("load") \/ (last.op = "load" /\ last.outcome = "threw"))
    => (EmptyVisible /\ ~LoadingVisible /\ "error" \in {emitted[i] : i \in 1..Len(emitted)})

\* C5: when processEmails fails (the fetch rejects, the body says
\* success:false, or its try block throws before the fetch) the empty state
\* is shown, the loading indicator and the listing are hidden, and an error
\* notification is surfaced.
C5_ProcessFailure ==
    (Failed("process") \/ (last.op = "process" /\ last.outcome = "threw"))
    => /\ EmptyVisible /\ ~LoadingVisible /\ ~ListingVisible
       /\ "error" \in {emitted[i] : i \in 1..Len(emitted)}
       /\ toast.show /\ toast.type = "error"

\* the response to a process request said success:false
C5_Witness ==
    /\ Failed("process")
    /\ last.outcome = "unsuccessful"
    /\ EmptyVisible

\* C6: emailsData changes only in the step that handles a successful
\* response, and then becomes that response's data; no other step changes it.
C6_OnlySuccessReplaces ==
    [][ emailsData' # emailsData
        => (last'.op = "response" /\ last'.outcome \in Success
            /\ emailsData' = last'.data) ]_vars

\* processEmails has failed while a snapshot was held, and the snapshot is
\* still held
C6_Witness ==
    /\ RepositoryMarkup
    /\ last.op = "process"
    /\ last.outcome = "threw"
    /\ EmptyVisible
    /\ emailsData # 0

\* C7 (as claimed): the requests issued are the startup load and one per
\* Refresh / Process click.
C7_OneRequestPerAction == pc = "running" => issued = 1 + clicks

\* C8 (as claimed): after a successful response emailsData is its data, the
\* listing is the only content view shown, and it lists the records the
\* current section and category select from the new snapshot.
C8_SuccessShowsListing ==
    Succeeded
    => /\ emailsData = last.data
       /\ ListingVisible /\ ~LoadingVisible /\ ~EmptyVisible
       /\ ListingIsSelected

\* C9 (as claimed): whenever a snapshot is held the rendered listing is the
\* sequence UIState selects from it, the placeholder alone when that is empty.
C9_ListingReflectsState == emailsData # 0 => ListingIsSelected

\* C10 (as claimed): after switchSection, for any section, currentCategory
\* is "all" (stated for the repository's markup).
C10_Original ==
    (RepositoryMarkup /\ last.op = "switchSection") => currentCategory = "all"

\* C10 (amended): switchSection(articles) sets currentCategory to "all";
\* switchSection to any other section leaves currentCategory as it was.
C10_ResetOnlyOnArticles ==
    [][ last'.op = "switchSection"
        => currentCategory' =
              (IF currentSection' = "articles" THEN "all" ELSE currentCategory) ]_vars

\* a category was selected, then the section switched away from articles
C10_Witness ==
    /\ RepositoryMarkup
    /\ last.op = "switchSection"
    /\ currentSection # "articles"
    /\ currentCategory # "all"

SidebarVisible == sidebarDisplay # "none"
ScrollLocked == bodyOverflow = "hidden"

\* sections.articles of snapshot d
ArticlesOf(d) == IF "articles" \in DOMAIN d.sections THEN d.sections["articles"] ELSE <<>>

\* the records category c selects from snapshot d
CategorySelection(d, c) ==
    IF c = "all" THEN ArticlesOf(d)
    ELSE IF c \in CategoryKeys(d) THEN CategoryEmails(d, c) ELSE <<>>

\* the article listing that shows the sequence seq
ArticleListing(seq) ==
    [cards |-> seq, placeholder |-> IF seq = <<>> THEN "articles" ELSE "", kind |-> "article"]

\* C11 (as claimed): whenever a snapshot is held, currentCategory is "all" or
\* a key of that snapshot's article_categories (stated for the repository's
\* markup).
C11_CategoryIsKey ==
    (RepositoryMarkup /\ emailsData # 0)
    => currentCategory \in {"all"} \cup CategoryKeys(Data(emailsData))

\* C12: the category sidebar is visible exactly when currentSection is
\* articles, and only a switchSection changes its visibility.
C12_SidebarIffArticles ==
    /\ [](SidebarVisible <=> currentSection = "articles")
    /\ [][ sidebarDisplay' # sidebarDisplay => last'.op = "switchSection" ]_vars

\* a snapshot is held and the section was switched away from articles
C12_Witness ==
    /\ RepositoryMarkup
    /\ last.op = "switchSection"
    /\ emailsData # 0
    /\ currentSection # "articles"
    /\ ~SidebarVisible

\* C13: after switchSection(articles), from whatever section and category,
\* currentCategory is "all" and, when a snapshot is held, the listing is
\* exactly sections.articles of that snapshot.
C13_BackToAllArticles ==
    (last.op = "switchSection" /\ currentSection = "articles")
    => /\ currentCategory = "all"
       /\ emailsData # 0 => listing = ArticleListing(ArticlesOf(Data(emailsData)))

\* a category was selected, the section switched away, and then back to
\* articles
C13_Witness ==
    /\ RepositoryMarkup
    /\ last.op = "switchSection"
    /\ last.outcome = "filtered"
    /\ currentSection = "articles"
    /\ currentCategory = "all"
    /\ emailsData # 0
    /\ listing.cards = ArticlesOf(Data(emailsData))

\* C14: whenever a snapshot is held, the count on the tab of every section
\* that is a key of snapshot.sections is the length of that section's
\* sequence in the held snapshot.
C14_TabCounts ==
    emailsData # 0
    => \A s \in Sections \cap DOMAIN Data(emailsData).sections :
           tabCount[s] = Len(Data(emailsData).sections[s])

\* a snapshot was replaced by one with another number of articles
C14_Witness ==
    /\ RepositoryMarkup
    /\ Succeeded
    /\ last.prev = 1
    /\ emailsData = 2
    /\ tabCount["articles"] = 1

\* C15: whenever the sidebar is visible and a snapshot is held, the All entry
\* counts sections.articles and the buttons after it are one per key of
\* article_categories, in the mapping's order, each with the length of its
\* sequence.
C15_CategoryControls ==
    (SidebarVisible /\ emailsData # 0)
    => /\ allCount = Len(ArticlesOf(Data(emailsData)))
       /\ catButtons = ButtonsOf(Data(emailsData))

\* the snapshot was replaced while another section was active (the buttons
\* were not rebuilt then), and the user has returned to articles
C15_Witness ==
    /\ RepositoryMarkup
    /\ last.op = "switchSection"
    /\ last.data = 1
    /\ currentSection = "articles"
    /\ SidebarVisible
    /\ emailsData = 2
    /\ catButtons = ButtonsOf(Data(2))

\* C16: a filterByCategory(c) in the articles section sets currentCategory
\* to c, leaves currentSection, currentView and emailsData as they were,
\* renders the listing the category selects from the held snapshot, leaves
\* the control for c the only active category control, and emits success
\* notifications only (at least one).
C16_FilterByCategory ==
    [][ (last'.op = "filterByCategory" /\ currentSection = "articles")
        => /\ currentCategory' = last'.kind
           /\ currentSection' = currentSection
           /\ currentView' = currentView
           /\ emailsData' = emailsData
           /\ emailsData # 0
              => listing' = ArticleListing(CategorySelection(Data(emailsData), last'.kind))
           /\ activeCats' = {last'.kind}
           /\ emitted' # <<>>
           /\ \A i \in 1..Len(emitted') : emitted'[i] = "success" ]_vars

\* the tech category was selected in the articles section
C16_Witness ==
    /\ RepositoryMarkup
    /\ last.op = "filterByCategory"
    /\ last.kind = "tech"
    /\ currentSection = "articles"
    /\ emailsData = 1
    /\ listing.cards = <<1>>
    /\ activeCats = {"tech"}
    /\ toast.show /\ toast.type = "success"

\* C17: filtering, in the articles section, by a category that selects no
\* record of the held snapshot renders the "no articles" placeholder, raises
\* no error, and sets currentCategory to that category.
C17_EmptyCategory ==
    (/\ last.op = "filterByCategory"
     /\ currentSection = "articles"
     /\ emailsData # 0
     /\ CategorySelection(Data(emailsData), last.kind) = <<>>)
    => /\ listing = [cards |-> <<>>, placeholder |-> "articles", kind |-> "article"]
       /\ ~uncaught
       /\ currentCategory = last.kind

\* the category with no entries was selected
C17_Witness ==
    /\ RepositoryMarkup
    /\ last.op = "filterByCategory"
    /\ last.kind = "ai"
    /\ currentSection = "articles"
    /\ emailsData = 2
    /\ listing.placeholder = "articles"

\* C18 (as claimed): a click on a card of the visible listing leaves the
\* overlay active and populated with that record.
C18_CardClickOpens ==
    (last.op = "open" /\ ListingVisible) => (modal.active /\ modal.record = last.data)

\* C19: background scrolling is locked exactly when the overlay is open, and
\* a closeModal with no overlay open changes neither.
C19_ScrollLockIffOverlay ==
    /\ [](ScrollLocked <=> modal.active)
    /\ [][ (last'.op = "closeModal" /\ ~modal.active)
           => (modal' = modal /\ bodyOverflow' = bodyOverflow) ]_vars

\* a card of the visible listing was opened and the overlay closed again
C19_Witness ==
    /\ ListingVisible
    /\ last.op = "closeModal"
    /\ modal.record \in {1, 3}
    /\ ~modal.active
    /\ ~ScrollLocked

\* the units that are pieces of a template (tags)
IsTag(u) == u \notin Chars \cup {"A", "&amp;", "&lt;", "&gt;"}

\* what a unit of element content is read back as: a character reference as
\* its character, a bare < as the start of a tag, a bare & as the start of a
\* character reference, any other character as itself
Decode(u) ==
    CASE u = "&amp;" -> "&"
      [] u = "&lt;"  -> "<"
      [] u = "&gt;"  -> ">"
      [] u = "<"     -> "#tag"
      [] u = "&"     -> "#reference"
      [] OTHER -> u

\* what a unit of a double-quoted attribute value is read back as
DecodeAttribute(u) ==
    CASE u = "&amp;" -> "&"
      [] u = "&lt;"  -> "<"
      [] u = "&gt;"  -> ">"
      [] u = "\""    -> "#end of value"
      [] u = "&"     -> "#reference"
      [] OTHER -> u

\* the runs of units between the template pieces of a piece of markup
RECURSIVE Runs(_)
Runs(html) ==
    LET tags == {i \in 1..Len(html) : IsTag(html[i])}
    IN  IF tags = {} THEN <<html>>
        ELSE LET i == CHOOSE t \in tags : \A u \in tags : t <= u
             IN  <<SubSeq(html, 1, i - 1)>> \o Runs(SubSeq(html, i + 1, Len(html)))

\* a run read back as element content, and as an attribute value
AsText(run) == [i \in 1..Len(run) |-> Decode(run[i])]
AsAttribute(run) == [i \in 1..Len(run) |-> DecodeAttribute(run[i])]

NonEmpty(t) == t # <<>>

\* the text nodes a piece of markup is parsed into
TextNodes(html) ==
    LET runs == Runs(html)
    IN  SelectSeq([i \in 1..Len(runs) |-> AsText(runs[i])], NonEmpty)

\* the paragraphs of a content the overlay shows
RECURSIVE Trimmed(_)
Trimmed(paragraphs) ==
    IF paragraphs = <<>> THEN <<>>
    ELSE <<trim(Head(paragraphs))>> \o Trimmed(Tail(paragraphs))

IsCard(site) == site \in {"createSectionEmailCard", "createArticleCard"}
IsOverlay(site) == site \in {"openSectionEmail", "openArticle"}

\* the texts the overlay has to show literally in modalContent
Shown(r, site) ==
    CASE site = "openSectionEmail" -> <<r.snippet>>
      [] site = "openArticle" ->
            Trimmed(split(IF r.full_content # <<>> THEN r.full_content ELSE r.summary))
      [] OTHER -> <<>>

\* C20: at each of the four places a record is inserted into the document
\* (article card, section email card, article overlay, section email
\* overlay) the title, sender, snippet / summary and content are shown as
\* literal text: the runs of the card's markup that hold the title, the
\* sender and the snippet / summary read back as exactly those texts, the
\* content of the overlay parses into text nodes that are exactly its
\* texts, and the title and sender of the overlay are set as plain text.
C20_FieldsEscaped ==
    /\ IsCard(out.site)
       => /\ AsText(Runs(out.html)[2]) = rec.title
          /\ AsText(Runs(out.html)[3]) = rec.sender
          /\ AsText(Runs(out.html)[6]) =
                (IF out.site = "createArticleCard" THEN rec.summary ELSE rec.snippet)
    /\ IsOverlay(out.site)
       => /\ TextNodes(out.html) = SelectSeq(Shown(rec, out.site), NonEmpty)
          /\ out.title = rec.title
          /\ out.sender = <<"From: ">> \o rec.sender

\* an article whose title holds a < was rendered into a card
C20_Witness ==
    /\ out.site = "createArticleCard"
    /\ \E i \in 1..Len(rec.title) : rec.title[i] = "<"
    /\ \E i \in 1..Len(out.html) : out.html[i] = "&lt;"

\* C21 (as claimed): the category / type label of a record reads back
\* literally where a card inserts it, as the badge's class name and as the
\* badge's text, and so does the category name in a category button.
C21_LabelsEscaped ==
    /\ IsCard(out.site)
       => /\ AsAttribute(Runs(out.html)[4]) = rec.label
          /\ AsText(Runs(out.html)[5]) = capitalize(rec.label)
    /\ out.site = "updateCategoryFilters"
       => AsText(Runs(out.html)[2]) = capitalize(rec.label)

\* C22: there is one notification slot and the timers are independent. A
\* step that is not the firing of a timer adds one pending timer per
\* showToast it calls and leaves the slot showing the last of them; the
\* firing of a timer removes that one timer, hides the slot, and leaves the
\* other timers pending.
C22_SingleSlotTimersKept ==
    [][ /\ last'.op # "timer"
           => /\ timers' = timers + Len(emitted')
              /\ emitted' # <<>>
                 => toast' = [show |-> TRUE, type |-> emitted'[Len(emitted')]]
              /\ emitted' = <<>> => toast' = toast
        /\ last'.op = "timer"
           => /\ timers' = timers - 1
              /\ toast' = [toast EXCEPT !.show = FALSE] ]_vars

\* an error toast was shown while the timer of an earlier toast was pending;
\* one of the timers has fired and hidden the slot, the other is pending
C22_Witness ==
    /\ RepositoryMarkup
    /\ last.op = "timer"
    /\ timers > 0
    /\ toast = [show |-> FALSE, type |-> "error"]

\* C23: currentSection changes only in a switchSection, currentCategory only
\* in a filterByCategory or a switchSection, currentView only in a
\* toggleView; issuing a request and handling a response change none.
C23_UIStateFrame ==
    [][ /\ currentSection' # currentSection => last'.op = "switchSection"
        /\ currentCategory' # currentCategory
           => last'.op \in {"filterByCategory", "switchSection"}
        /\ currentView' # currentView => last'.op = "toggleView"
        /\ last'.op \in {"load", "refresh", "process", "arrival", "response"}
           => /\ currentSection' = currentSection
              /\ currentCategory' = currentCategory
              /\ currentView' = currentView ]_vars

\* a snapshot was replaced by another while a category other than the
\* initial one was selected
C23_Witness ==
    /\ RepositoryMarkup
    /\ Succeeded
    /\ last.prev # 0
    /\ last.prev # emailsData
    /\ currentCategory # "all"

\* the view buttons are inside the listing container (markup lines
\* 129-139): they are displayed, and can be clicked by the user, only while
\* the container is
ViewButtonsDisplayed == gridDisplay # "none"

\* C24: a toggleView(v) that the user can bring about, by a click on a
\* displayed view button, sets currentView to v, leaves the button for v the
\* only active view button, emits one success notification, leaves
\* currentSection, currentCategory and emailsData as they were, raises no
\* error (also with no snapshot held), and the listing after it is the
\* listing before it.
C24_ToggleView ==
    [][ (last'.op = "toggleView" /\ ViewButtonsDisplayed)
        => /\ currentView' = last'.kind
           /\ activeViews' = {last'.kind}
           /\ emitted' = <<"success">>
           /\ currentSection' = currentSection
           /\ currentCategory' = currentCategory
           /\ emailsData' = emailsData
           /\ ~uncaught'
           /\ listing' = listing ]_vars

\* the list view was chosen while a snapshot was held and its records were
\* listed
C24_Witness ==
    /\ last.op = "toggleView"
    /\ last.kind = "list"
    /\ currentView = "list"
    /\ activeViews = {"list"}
    /\ emailsData # 0
    /\ listing.cards # <<>>
    /\ ViewButtonsDisplayed

\* the grid view was chosen again while the listing was displayed and no
\* snapshot was held
C24_NoSnapshot ==
    /\ last.op = "toggleView"
    /\ emailsData = 0
    /\ ViewButtonsDisplayed
    /\ ~uncaught

\* C25 (as claimed): whenever the sidebar is visible, the control for
\* currentCategory is the one category control that is active (stated for
\* the repository's markup).
C25_OneActiveCategory ==
    (RepositoryMarkup /\ SidebarVisible) => activeCats = {currentCategory}

\* C26 (as claimed): a click on a category control runs filterByCategory
\* once: one notification is emitted (stated for the repository's markup).
C26_OneFilterPerClick ==
    (RepositoryMarkup /\ last.op = "filterByCategory") => Len(emitted) = 1

\* C27 (as claimed): whenever a snapshot is held, every tab shows the length
\* of its section in the held snapshot, 0 for a section the snapshot omits
\* (stated for the repository's markup).
C27_NoStaleTabCount ==
    (RepositoryMarkup /\ emailsData # 0)
    => \A s \in Sections :
           tabCount[s] = IF s \in DOMAIN Data(emailsData).sections
                         THEN Len(Data(emailsData).sections[s]) ELSE 0

\* C28 (as claimed): a switchSection with no snapshot held raises no error
\* and leaves the listing empty.
C28_SwitchBeforeSnapshot ==
    (last.op = "switchSection" /\ emailsData = 0)
    => (~uncaught /\ listing.cards = <<>>)

\* C29 (as claimed): whenever the empty state is visible no snapshot is held.
C29_EmptyStateMeansNoSnapshot == EmptyVisible => emailsData = 0

\* C30 (as claimed): exactly one of the loading indicator, the empty state
\* and the listing is visible.
C30_ExactlyOneView ==
    Cardinality({v \in {"loading", "empty", "listing"} :
                    \/ v = "loading" /\ LoadingVisible
                    \/ v = "empty" /\ EmptyVisible
                    \/ v = "listing" /\ ListingVisible}) = 1

\* C31 (as claimed): a toast stays visible until its own timer fires.
\* Timers of one duration fire in the order they were set, so while any
\* timer is pending the timer of the most recent toast is pending, and the
\* slot is visible (stated for the repository's markup).
C31_VisibleUntilOwnTimer == (RepositoryMarkup /\ timers > 0) => toast.show

\* the label the header has to carry for what is listed
HeaderLabel ==
    IF currentSection # "articles" THEN formatSectionName(currentSection)
    ELSE IF currentCategory = "all" THEN "All Articles"
    ELSE formatCategoryName(currentCategory)

\* C32 (as claimed): whenever a snapshot is held and the listing is visible,
\* the header names what is listed.
C32_HeaderNamesListing == (emailsData # 0 /\ ListingVisible) => header = HeaderLabel

\* C33 (as claimed): with the repository's markup the startup completes
\* showLoading and issues the load request: the loading indicator is
\* visible, nothing was thrown and one request is in flight.
C33_StartupIssuesLoad ==
    (RepositoryMarkup /\ last.op = "load")
    => /\ last.outcome # "threw"
       /\ LoadingVisible
       /\ BagCardinality(inflight) = 1

====
